---------------------------- MODULE Spec2Model ----------------------------
(***************************************************************************)
(* Model of the KinematicBicycleModel visualisation core:                  *)
(*   - tools.py       : initialise_cubic_spline, generate_cubic_spline,    *)
(*                      get_rotation_matrix                                *)
(*   - path.py        : CircularPath.__init__                              *)
(*   - description.py : CarParameters, CarDescription                      *)
(*                                                                         *)
(* Arithmetic is exact.  Path lengths are integers in units of 0.05 m (so  *)
(* the default sampling interval ds = 0.05 is 1).  Car lengths are         *)
(* rationals <<num, den>> in metres.  An angle is carried as the point     *)
(* <<cos, sin>> it marks on the unit circle, so that cos and sin are exact *)
(* and the sum of two angles is the complex product.                       *)
(***************************************************************************)
EXTENDS Integers, Sequences, FiniteSets, TLC

----------------------------------------------------------------------------
(* Bounds of the explored inputs *)

MaxCoord == 4      \* waypoint x coordinates range over 0..MaxCoord
MaxPoints == 3     \* waypoint sequences have 0..MaxPoints points
MaxDs == 3         \* sampling intervals range over -1..MaxDs
MaxE == 1          \* lateral offsets e range over 0..MaxE metres
MaxCalls == 2      \* plot_car calls followed on one instance

----------------------------------------------------------------------------
(* Integer helpers *)

Abs(n) == IF n < 0 THEN 0 - n ELSE n

Max(a, b) == IF a >= b THEN a ELSE b

\* ceil(a / b) for an integer a and a non-zero integer b
CeilDiv(a, b) ==
    LET n == IF b < 0 THEN 0 - a ELSE a
        d == Abs(b)
    IN  0 - ((0 - n) \div d)

\* F(v), with v evaluated once
Bind(v, F(_)) == CHOOSE out \in {F(w) : w \in {v}} : TRUE

IsSquare(n) == \E h \in 0..n : h * h = n

ISqrt(n) == CHOOSE h \in 0..n : h * h = n

----------------------------------------------------------------------------
(* numpy / scipy operations used by tools.py *)

\* np.ediff1d(a): differences of consecutive elements
ediff1d(a) == [i \in 1..Max(Len(a) - 1, 0) |-> a[i + 1] - a[i]]

\* np.hypot on two equally long arrays (inputs are drawn so that it is exact)
hypot(a, b) == [i \in 1..Len(a) |-> ISqrt(a[i] * a[i] + b[i] * b[i])]

RECURSIVE SumTo(_, _)
SumTo(a, i) == IF i = 0 THEN 0 ELSE SumTo(a, i - 1) + a[i]

\* np.cumsum(a)
cumsum(a) == [i \in 1..Len(a) |-> SumTo(a, i)]

\* np.arange(0, stop, step): raises when the length ceil(stop / step) cannot
\* be computed (step = 0), else holds the values 0, step, 2 step, ...
ArangeLenFloor(stop, step) == IF step > 0 THEN stop \div step ELSE 0

ArangeLenClosed(stop, step) == IF step > 0 THEN (stop \div step) + 1 ELSE 0

ArangeLen(stop, step) == Max(CeilDiv(stop, step), 0)

arange(stop, step) ==
    IF step = 0 THEN [raised |-> TRUE, val |-> <<>>]
    ELSE [raised |-> FALSE,
          val |-> [i \in 1..ArangeLen(stop, step) |-> (i - 1) * step]]

\* CubicSpline.__init__ input validation: at least 2 knots, as many values
\* as knots, knots strictly increasing
CubicSplineRejectsDecreasingOnly(knots, points) ==
    \/ Len(knots) < 2
    \/ Len(knots) # Len(points)
    \/ \E i \in 1..(Len(knots) - 1) : knots[i + 1] < knots[i]

CubicSplineRejects(knots, points) ==
    \/ Len(knots) < 2
    \/ Len(knots) # Len(points)
    \/ \E i \in 1..(Len(knots) - 1) : knots[i + 1] <= knots[i]

\* cs.derivative(nu)(s) for a spline fitted with extrapolate=False: NaN
\* outside [knots[0], knots[-1]], else the nu-th derivative of the
\* interpolant at s[i], kept symbolic
SplineEval(knots, nu, s) ==
    [i \in 1..Len(s) |->
        [nan |-> s[i] < knots[1] \/ s[i] > knots[Len(knots)],
         nu |-> nu, at |-> s[i]]]

\* an elementwise numpy expression over spline evaluations (arctan2, the
\* curvature quotient, a column of cs(s)): NaN where an operand is NaN
Elementwise(name, a, b) ==
    [i \in 1..Len(a) |-> [nan |-> a[i].nan \/ b[i].nan, of |-> name, at |-> a[i].at]]

----------------------------------------------------------------------------
(* tools.py *)

NoError == "none"
ArangeError == "ArangeError"                \* raised by np.arange, line 13
DuplicateHintError == "ValueErrorWithHint"  \* re-raised ValueError, line 19
UnpackError == "UnpackError"                \* x, y = [] in path.py line 50

initialise_cubic_spline(x, y, ds) ==
    LET distance == <<0>> \o cumsum(hypot(ediff1d(x), ediff1d(y)))
        points == [i \in 1..Len(x) |-> <<x[i], y[i]>>]
        s == arange(distance[Len(distance)], ds)
    IN  IF s.raised
        THEN [raised |-> ArangeError, cs |-> <<>>, s |-> <<>>]
        ELSE IF CubicSplineRejects(distance, points)
        THEN [raised |-> DuplicateHintError, cs |-> <<>>, s |-> <<>>]
        ELSE [raised |-> NoError, cs |-> distance, s |-> s.val]

NoArrays == [cx |-> <<>>, cy |-> <<>>, yaw |-> <<>>, curvature |-> <<>>]

\* the result of a call: what was raised, whether a tuple was returned, the
\* four arrays, and (for observation) the local s and the knots of cs
generate_cubic_spline(x, y, ds) ==
    LET init == initialise_cubic_spline(x, y, ds) IN
    IF init.raised # NoError
    THEN [raised |-> init.raised, returned |-> FALSE, arrays |-> NoArrays,
          s |-> <<>>, distance |-> <<>>]
    ELSE
        LET d1 == SplineEval(init.cs, 1, init.s)
            d2 == SplineEval(init.cs, 2, init.s)
            c0 == SplineEval(init.cs, 0, init.s)
        IN  [raised |-> NoError, returned |-> TRUE,
             arrays |-> [cx |-> Elementwise("cx", c0, c0),
                         cy |-> Elementwise("cy", c0, c0),
                         yaw |-> Elementwise("arctan2", d1, d1),
                         curvature |-> Elementwise("curvature", d1, d2)],
             s |-> init.s, distance |-> init.cs]

----------------------------------------------------------------------------
(* path.py *)

DefaultDs == 1     \* ds = 0.05 in units of 0.05 m

Radii == {1, 50}

Widths == {4}

NewPath ==
    [assigned |-> {}, x_t |-> <<>>, y_t |-> <<>>, yaw_t |-> <<>>, k |-> <<>>,
     s |-> <<>>, radius |-> 0, length |-> <<>>, width |-> 0]

\* np.linspace(0, length, n), kept symbolic: element i is (i-1)/(n-1) length
linspace(length, n) == [i \in 1..n |-> <<i - 1, n - 1, length>>]

\* CircularPath.__init__ on a track file holding the rows xs, ys after the
\* header: the populated object and what was raised
CircularPath_init(radius, width, xs, ys, circle) ==
    IF ~circle THEN [raised |-> NoError, self |-> NewPath]
    ELSE IF Len(xs) = 0 THEN [raised |-> UnpackError, self |-> NewPath]
    ELSE
        LET g == generate_cubic_spline(xs, ys, DefaultDs) IN
        IF ~g.returned THEN [raised |-> g.raised, self |-> NewPath]
        ELSE [raised |-> NoError,
              self |-> [assigned |-> {"x_t", "y_t", "yaw_t", "k", "radius",
                                      "length", "s", "width"},
                        x_t |-> g.arrays.cx, y_t |-> g.arrays.cy,
                        yaw_t |-> g.arrays.yaw, k |-> g.arrays.curvature,
                        s |-> linspace(<<"2pi", radius>>, Len(g.arrays.cx)),
                        radius |-> radius, length |-> <<"2pi", radius>>,
                        width |-> width]]

----------------------------------------------------------------------------
(* Exact rationals <<num, den>>, den > 0, in lowest terms *)

RECURSIVE GCD(_, _)
GCD(a, b) == IF b = 0 THEN a ELSE GCD(b, a % b)

Rat(n, d) == LET g == GCD(Abs(n), d) IN <<n \div g, d \div g>>

RAdd(a, b) ==
    LET g == GCD(a[2], b[2])
    IN  Rat(a[1] * (b[2] \div g) + b[1] * (a[2] \div g), (a[2] \div g) * b[2])

RNeg(a) == <<0 - a[1], a[2]>>

RSub(a, b) == RAdd(a, RNeg(b))

RMul(a, b) ==
    LET g1 == GCD(Abs(a[1]), b[2])
        g2 == GCD(Abs(b[1]), a[2])
    IN  IF a[1] = 0 \/ b[1] = 0 THEN <<0, 1>>
        ELSE <<(a[1] \div g1) * (b[1] \div g2), (a[2] \div g2) * (b[2] \div g1)>>

Half == Rat(1, 2)

----------------------------------------------------------------------------
(* Angles, carried as the unit vector <<cos, sin>> *)

Angle0 == <<Rat(1, 1), Rat(0, 1)>>
HalfPi == <<Rat(0, 1), Rat(1, 1)>>
Pi == <<Rat(-1, 1), Rat(0, 1)>>
Atan34 == <<Rat(4, 5), Rat(3, 5)>>          \* atan(3/4), about 36.9 degrees
Atan512 == <<Rat(12, 13), Rat(5, 13)>>      \* atan(5/12), about 22.6 degrees

cos(a) == a[1]
sin(a) == a[2]

\* a + b
AngAdd(a, b) ==
    <<RSub(RMul(a[1], b[1]), RMul(a[2], b[2])),
      RAdd(RMul(a[2], b[1]), RMul(a[1], b[2]))>>

\* -a
AngNeg(a) == <<a[1], RNeg(a[2])>>

----------------------------------------------------------------------------
(* numpy arrays: a 2-D array is a sequence of rows, a row a sequence of     *)
(* rationals.  Arrays live in a heap (a sequence of arrays); an object      *)
(* field or a local name holds the address of its array, so that in-place   *)
(* operators and views write to the array every alias sees.                 *)

\* A.dot(B) / A @ B for an n x 2 array A and a 2 x 2 array B
dot(A, B) ==
    [i \in 1..Len(A) |->
        [j \in 1..2 |-> RAdd(RMul(A[i][1], B[1][j]), RMul(A[i][2], B[2][j]))]]

\* A.T
Transpose(A) == [j \in 1..Len(A[1]) |-> [i \in 1..Len(A) |-> A[i][j]]]

\* A[:, col] += c, in place
IAddColumn(h, a, col, c) ==
    [h EXCEPT ![a] = [i \in 1..Len(@) |-> [@[i] EXCEPT ![col] = RAdd(@, c)]]]

\* A[:, col] *= c, in place
IMulColumn(h, a, col, c) ==
    [h EXCEPT ![a] = [i \in 1..Len(@) |-> [@[i] EXCEPT ![col] = RMul(@, c)]]]

\* A += v, in place, the 1-D array v broadcast over the rows of A
IAddRows(h, a, v) ==
    [h EXCEPT ![a] = [i \in 1..Len(@) |-> [j \in 1..2 |-> RAdd(@[i][j], v[j])]]]

\* A - v, a new array, v broadcast over the rows of A
SubRows(A, v) == [i \in 1..Len(A) |-> [j \in 1..2 |-> RSub(A[i][j], v[j])]]

----------------------------------------------------------------------------
(* tools.py: get_rotation_matrix *)

get_rotation_matrix_symmetric(angle) ==
    LET cos_angle == cos(angle)
        sin_angle == sin(angle)
    IN  << <<cos_angle, sin_angle>>,
           <<sin_angle, cos_angle>> >>

get_rotation_matrix(angle) ==
    LET cos_angle == cos(angle)
        sin_angle == sin(angle)
    IN  << <<cos_angle, sin_angle>>,
           <<RNeg(sin_angle), cos_angle>> >>

----------------------------------------------------------------------------
(* description.py: CarParameters, in metres *)

length == Rat(497, 100)
width == Rat(1964, 1000)
tire_diameter == Rat(4826, 10000)
tire_width == Rat(265, 1000)
axle_track == Rat(17, 10)
wheelbase == Rat(296, 100)
rear_overhang == RMul(Half, RSub(length, wheelbase))
l_ == Rat(5, 10)
l_r == RMul(l_, wheelbase)
l_f == RMul(l_, wheelbase)

----------------------------------------------------------------------------
(* description.py: CarDescription *)

None == <<>>

ArrayFields ==
    {"outlines", "rear_right_wheel", "rear_left_wheel", "fr_wheel_center",
     "fl_wheel_center", "fr_wheel_origin", "fl_wheel_origin", "yaw_vector"}

ShapeFields == ArrayFields \ {"yaw_vector"}

\* What is left of the heap h once the locals of a call are gone: the arrays
\* the fields of self hold, renumbered in address order (aliases stay aliases)
Collect(h, self) ==
    LET roots == {self[f] : f \in ArrayFields}
        rank(a) == Cardinality({b \in roots : b <= a})
    IN  [heap |-> [i \in 1..Cardinality(roots) |->
                      h[CHOOSE a \in roots : rank(a) = i]],
         self |-> [f \in DOMAIN self |->
                      IF f \in ArrayFields THEN rank(self[f]) ELSE self[f]]]

\* np.concatenate([vertices, [vertices[0]]])
ClosePolygonWithSecond(vertices) == vertices \o <<vertices[2]>>

ClosePolygon(vertices) == vertices \o <<vertices[1]>>

\* the lambda get_face_center: a 1-D array
get_face_center(vertices) ==
    <<RMul(Half, RAdd(vertices[1][1], vertices[3][1])),
      RMul(Half, RAdd(vertices[1][2], vertices[3][2]))>>

\* CarDescription.__init__; empty is what np.empty((2, 2)) happens to hold
CarDescription_init(empty) ==
    LET rear_axle_to_front_bumper == RSub(length, rear_overhang)
        centerline_to_wheel_centre == RMul(Half, axle_track)
        centerline_to_side == RMul(Half, width)
        vehicle_vertices ==
            << <<RNeg(rear_overhang), centerline_to_side>>,
               <<rear_axle_to_front_bumper, centerline_to_side>>,
               <<rear_axle_to_front_bumper, RNeg(centerline_to_side)>>,
               <<RNeg(rear_overhang), RNeg(centerline_to_side)>> >>
        half_tyre_width == RMul(Half, tire_width)
        centerline_to_inwards_rim == RSub(centerline_to_wheel_centre, half_tyre_width)
        centerline_to_outwards_rim == RAdd(centerline_to_wheel_centre, half_tyre_width)
        wheel_vertices ==
            << <<RNeg(tire_diameter), RNeg(centerline_to_inwards_rim)>>,
               <<tire_diameter, RNeg(centerline_to_inwards_rim)>>,
               <<tire_diameter, RNeg(centerline_to_outwards_rim)>>,
               <<RNeg(tire_diameter), RNeg(centerline_to_outwards_rim)>> >>
    IN
    \* the arrays, in order of allocation: outlines at Len(h1),
    \* rear_right_wheel at Len(h2), rear_left_wheel at Len(h3), the locals
    \* front_left_wheel at Len(h5) and front_right_wheel at Len(h6),
    \* fr_wheel_center, fl_wheel_center, fr_wheel_origin, fl_wheel_origin at
    \* Len(h9) .. Len(h12), yaw_vector at Len(h13)
    Bind(<<ClosePolygon(vehicle_vertices)>>, LAMBDA h1 :
    Bind(Append(h1, ClosePolygon(wheel_vertices)), LAMBDA h2 :
    Bind(Append(h2, h2[Len(h2)]), LAMBDA h3 :                       \* .copy()
    Bind(IMulColumn(h3, Len(h3), 2, Rat(-1, 1)), LAMBDA h4 :
    Bind(Append(h4, h4[Len(h3)]), LAMBDA h5 :                       \* .copy()
    Bind(Append(h5, h5[Len(h2)]), LAMBDA h6 :                       \* .copy()
    Bind(IAddColumn(h6, Len(h5), 1, wheelbase), LAMBDA h7 :
    Bind(IAddColumn(h7, Len(h6), 1, wheelbase), LAMBDA h8 :
    Bind(Append(h8, get_face_center(h8[Len(h6)])), LAMBDA h9 :
    Bind(Append(h9, get_face_center(h9[Len(h5)])), LAMBDA h10 :
    Bind(Append(h10, SubRows(h10[Len(h6)], h10[Len(h9)])), LAMBDA h11 :
    Bind(Append(h11, SubRows(h11[Len(h5)], h11[Len(h10)])), LAMBDA h12 :
    Bind(Append(h12, empty), LAMBDA h13 :
        Collect(h13,
                [outlines |-> Len(h1), rear_right_wheel |-> Len(h2),
                 rear_left_wheel |-> Len(h3),
                 fr_wheel_center |-> Len(h9), fl_wheel_center |-> Len(h10),
                 fr_wheel_origin |-> Len(h11), fl_wheel_origin |-> Len(h12),
                 yaw_vector |-> Len(h13), x |-> None, y |-> None]))))))))))))))

\* CarDescription.transform: the new heap and the address of the array the
\* returned .T view looks at
transform_in_place(h, self, point) ==
    Bind([h EXCEPT ![point] = dot(h[point], h[self.yaw_vector])], LAMBDA h1 :
        LET h2 == IAddColumn(h1, point, 1, self.x)
            h3 == IAddColumn(h2, point, 2, self.y)
        IN  [heap |-> h3, base |-> point])

transform(h, self, point) ==
    Bind(Append(h, dot(h[point], h[self.yaw_vector])), LAMBDA h1 :
        LET base == Len(h1)
            h2 == IAddColumn(h1, base, 1, self.x)      \* point[0, :] += self.x
            h3 == IAddColumn(h2, base, 2, self.y)      \* point[1, :] += self.y
        IN  [heap |-> h3, base |-> base])

\* the path radius, r = 50
r == Rat(50, 1)

\* s / r: the arc length s is carried as the angle it subtends on this path
SOverR(s) == s.over_r

\* c * np.array([np.cos(a), np.sin(a)])
Scaled(c, a) == <<RMul(c, cos(a)), RMul(c, sin(a))>>

VAdd(u, v) == <<RAdd(u[1], v[1]), RAdd(u[2], v[2])>>

\* CarDescription.frenet_to_cartesian
frenet_to_cartesian_no_quarter_turn(x_road) ==
    LET yaw == AngAdd(x_road.mu, SOverR(x_road.s))
        xy1 == Scaled(r, SOverR(x_road.s))
        xy2 == VAdd(xy1, Scaled(x_road.e, AngAdd(Pi, SOverR(x_road.s))))
        xy3 == VAdd(xy2, Scaled(l_r, yaw))
    IN  <<xy3[1], xy3[2], x_road.v, yaw, x_road.d>>

frenet_to_cartesian(x_road) ==
    LET yaw == AngAdd(x_road.mu, AngAdd(HalfPi, SOverR(x_road.s)))
        xy1 == Scaled(r, SOverR(x_road.s))
        xy2 == VAdd(xy1, Scaled(x_road.e, AngAdd(Pi, SOverR(x_road.s))))
        xy3 == VAdd(xy2, Scaled(l_r, yaw))
    IN  <<xy3[1], xy3[2], x_road.v, yaw, x_road.d>>

\* plot_car lines 122-125: cache the pose, rebind yaw_vector to a new array
cache_pose_once(h, self, x_global) ==
    IF self.x = None
    THEN LET h1 == Append(h, get_rotation_matrix(x_global[4]))
         IN  [heap |-> h1,
              self |-> [self EXCEPT !.x = x_global[1], !.y = x_global[2],
                                    !.yaw_vector = Len(h1)]]
    ELSE [heap |-> h, self |-> self]

cache_pose(h, self, x_global) ==
    LET h1 == Append(h, get_rotation_matrix(x_global[4]))
    IN  [heap |-> h1,
         self |-> [self EXCEPT !.x = x_global[1], !.y = x_global[2],
                               !.yaw_vector = Len(h1)]]

\* plot_car lines 126-134: rotate the front wheels about their centres; the
\* locals are steer_vector at Len(h1), the two copies at Len(h2) and Len(h3),
\* front_right_wheel at Len(h4) and front_left_wheel at Len(h5)
pivot_front_wheels_swapped(h, self, steer) ==
    Bind(Append(h, get_rotation_matrix(steer)), LAMBDA h1 :
    Bind(Append(h1, h1[self.fr_wheel_origin]), LAMBDA h2 :
    Bind(Append(h2, h2[self.fl_wheel_origin]), LAMBDA h3 :
    Bind(Append(h3, dot(h3[Len(h2)], h3[Len(h1)])), LAMBDA h4 :
    Bind(Append(h4, dot(h4[Len(h3)], h4[Len(h1)])), LAMBDA h5 :
    Bind(IAddRows(h5, Len(h4), h5[self.fl_wheel_center]), LAMBDA h6 :
    Bind(IAddRows(h6, Len(h5), h6[self.fr_wheel_center]), LAMBDA h7 :
        [heap |-> h7, front_right_wheel |-> Len(h4),
         front_left_wheel |-> Len(h5)])))))))

pivot_front_wheels(h, self, steer) ==
    Bind(Append(h, get_rotation_matrix(steer)), LAMBDA h1 :
    Bind(Append(h1, h1[self.fr_wheel_origin]), LAMBDA h2 :           \* .copy()
    Bind(Append(h2, h2[self.fl_wheel_origin]), LAMBDA h3 :           \* .copy()
    Bind(Append(h3, dot(h3[Len(h2)], h3[Len(h1)])), LAMBDA h4 :
    Bind(Append(h4, dot(h4[Len(h3)], h4[Len(h1)])), LAMBDA h5 :
    Bind(IAddRows(h5, Len(h4), h5[self.fr_wheel_center]), LAMBDA h6 :
    Bind(IAddRows(h6, Len(h5), h6[self.fl_wheel_center]), LAMBDA h7 :
        [heap |-> h7, front_right_wheel |-> Len(h4),
         front_left_wheel |-> Len(h5)])))))))

\* CarDescription.plot_car: the object and its arrays after the call, and the
\* returned tuple (the arrays by value)
plot_car(h, self, x_road) ==
    Bind(frenet_to_cartesian(x_road), LAMBDA x_global :
    Bind(cache_pose(h, self, x_global), LAMBDA c :
    Bind(pivot_front_wheels(c.heap, c.self, x_global[5]), LAMBDA p :
    Bind(transform(p.heap, c.self, c.self.outlines), LAMBDA t1 :
    Bind(transform(t1.heap, c.self, c.self.rear_right_wheel), LAMBDA t2 :
    Bind(transform(t2.heap, c.self, c.self.rear_left_wheel), LAMBDA t3 :
    Bind(transform(t3.heap, c.self, p.front_right_wheel), LAMBDA t4 :
    Bind(transform(t4.heap, c.self, p.front_left_wheel), LAMBDA t5 :
    Bind(Collect(t5.heap, c.self), LAMBDA after :
        [heap |-> after.heap, self |-> after.self,
         ret |-> [x |-> c.self.x, y |-> c.self.y,
                  outlines |-> Transpose(t5.heap[t1.base]),
                  front_right_wheel |-> Transpose(t5.heap[t4.base]),
                  rear_right_wheel |-> Transpose(t5.heap[t2.base]),
                  front_left_wheel |-> Transpose(t5.heap[t5.base]),
                  rear_left_wheel |-> Transpose(t5.heap[t3.base])]])))))))))

----------------------------------------------------------------------------
(* State *)

VARIABLES
    x, y, ds,      \* the waypoints and sampling interval handed to tools.py
    call,          \* "ready", then which entry point of the path code ran
    spline,        \* outcome of generate_cubic_spline(x, y, ds)
    path,          \* outcome of CircularPath(radius, width, file, circle)
    heap, self,    \* a CarDescription instance and the arrays it holds
    x_road,        \* the state handed to the last plot_car call
    ret,           \* what the last plot_car call returned
    calls          \* number of plot_car calls made on the instance

pathVars == <<x, y, ds, call, spline, path>>
carVars == <<heap, self, x_road, ret, calls>>
vars == <<x, y, ds, call, spline, path, heap, self, x_road, ret, calls>>

----------------------------------------------------------------------------
(* Inputs *)

YCoords == {0, 3}

Points == (0..MaxCoord) \X YCoords

ExactChord(p, q) ==
    IsSquare((q[1] - p[1]) * (q[1] - p[1]) + (q[2] - p[2]) * (q[2] - p[2]))

\* waypoint sequences of n points whose chords have integer length
RECURSIVE Waypoints(_)
Waypoints(n) ==
    IF n = 0 THEN {<<>>}
    ELSE IF n = 1 THEN {<<p>> : p \in Points}
    ELSE UNION {{Append(w, p) : p \in {q \in Points : ExactChord(w[n - 1], q)}} :
                    w \in Waypoints(n - 1)}

WaypointSeqs == UNION {Waypoints(n) : n \in 0..MaxPoints}

DsValues == (-1)..MaxDs

SValues == {[over_r |-> a] : a \in {Angle0, HalfPi, Atan34}}
EValues == {Rat(n, 1) : n \in 0..MaxE}
MuValues == {Angle0, Atan34, AngNeg(Atan34)}
VValues == {Rat(0, 1), Rat(5, 1)}
DValues == {Angle0, Atan512, AngNeg(Atan512)}

States == [s : SValues, e : EValues, mu : MuValues, v : VValues, d : DValues]

\* contents np.empty((2, 2)) may have
EmptyContents ==
    {<< <<Rat(0, 1), Rat(0, 1)>>, <<Rat(0, 1), Rat(0, 1)>> >>,
     << <<Rat(7, 1), Rat(-3, 1)>>, <<Rat(1, 2), Rat(9, 1)>> >>}

NoSpline ==
    [raised |-> NoError, returned |-> FALSE, arrays |-> NoArrays,
     s |-> <<>>, distance |-> <<>>]

NoPath == [circle |-> FALSE, raised |-> NoError, self |-> NewPath]

NoReturn ==
    [x |-> None, y |-> None, outlines |-> <<>>, front_right_wheel |-> <<>>,
     rear_right_wheel |-> <<>>, front_left_wheel |-> <<>>,
     rear_left_wheel |-> <<>>]

NoState == [s |-> [over_r |-> None], e |-> None, mu |-> None, v |-> None, d |-> None]

NoCar == [f \in ArrayFields \cup {"x", "y"} |-> None]

----------------------------------------------------------------------------
(* The path code: tools.py and path.py *)

PathIdle ==
    /\ x = <<>> /\ y = <<>> /\ ds = DefaultDs
    /\ call = "ready" /\ spline = NoSpline /\ path = NoPath

\* the instances __init__ can leave behind
FreshCars == {CarDescription_init(empty) : empty \in EmptyContents}

CarFresh(car) ==
    /\ heap = car.heap
    /\ self = car.self
    /\ x_road = NoState
    /\ ret = NoReturn
    /\ calls = 0

InitPath ==
    /\ \E w \in WaypointSeqs :
          /\ x = [i \in 1..Len(w) |-> w[i][1]]
          /\ y = [i \in 1..Len(w) |-> w[i][2]]
    /\ ds \in DsValues
    /\ call = "ready" /\ spline = NoSpline /\ path = NoPath
    /\ CarFresh([heap |-> <<>>, self |-> NoCar])

GenerateCubicSpline ==
    /\ call = "ready"
    /\ call' = "generate_cubic_spline"
    /\ spline' = generate_cubic_spline(x, y, ds)
    /\ UNCHANGED <<x, y, ds, path>>
    /\ UNCHANGED carVars

NewCircularPath ==
    /\ call = "ready"
    /\ \E radius \in Radii, w \in Widths, circle \in BOOLEAN :
          LET out == CircularPath_init(radius, w, x, y, circle)
          IN  /\ path' = [circle |-> circle, raised |-> out.raised,
                          self |-> out.self]
              \* the call of generate_cubic_spline it makes, if any
              /\ spline' = IF circle /\ Len(x) > 0
                           THEN generate_cubic_spline(x, y, DefaultDs)
                           ELSE spline
    /\ call' = "CircularPath"
    /\ UNCHANGED <<x, y, ds>>
    /\ UNCHANGED carVars

NextPath == GenerateCubicSpline \/ NewCircularPath

SpecPath == InitPath /\ [][NextPath]_vars

----------------------------------------------------------------------------
(* The car code: description.py *)

InitCar ==
    /\ PathIdle
    /\ \E car \in FreshCars : CarFresh(car)

PlotCar ==
    /\ calls < MaxCalls
    /\ calls' = calls + 1
    /\ \E q \in States :
          \E out \in {plot_car(heap, self, q)} :
              /\ heap' = out.heap
              /\ self' = out.self
              /\ ret' = out.ret
              /\ x_road' = q
    /\ UNCHANGED pathVars

NextCar == PlotCar

SpecCar == InitCar /\ [][NextCar]_vars

----------------------------------------------------------------------------
(* Properties of the path code, checked under SpecPath *)

\* sum of the Euclidean distances between consecutive waypoints
TotalChord == SumTo(hypot(ediff1d(x), ediff1d(y)), Max(Len(x) - 1, 0))

HasConsecutiveDuplicate ==
    \E i \in 1..(Len(x) - 1) : x[i] = x[i + 1] /\ y[i] = y[i + 1]

NonDegenerate == Len(x) >= 2 /\ ~HasConsecutiveDuplicate

SameLength(a) ==
    /\ Len(a.cx) = Len(a.cy)
    /\ Len(a.cy) = Len(a.yaw)
    /\ Len(a.yaw) = Len(a.curvature)

Generated == call = "generate_cubic_spline"

\* generate_cubic_spline ran, directly or from CircularPath.__init__
SplineCalled ==
    \/ call = "generate_cubic_spline"
    \/ call = "CircularPath" /\ path.circle /\ Len(x) > 0

\* the sampling interval that call was given
DsUsed == IF call = "CircularPath" THEN DefaultDs ELSE ds

\* C1 as stated: for at least 2 waypoints, no two consecutive ones equal, and
\* 0 < ds < total chord length, the four returned arrays have one length,
\* and it is floor(total chord length / ds).
C1_FloorLength ==
    (Generated /\ NonDegenerate /\ 0 < ds /\ ds < TotalChord) =>
        /\ spline.returned
        /\ SameLength(spline.arrays)
        /\ Len(spline.arrays.cx) = TotalChord \div ds

\* C1 amended: under the same conditions the four returned arrays have one
\* length n = ceil(total chord length / ds), the least n with
\* n ds >= total chord length.
C1_CeilLength ==
    (Generated /\ NonDegenerate /\ 0 < ds /\ ds < TotalChord) =>
        /\ spline.returned
        /\ SameLength(spline.arrays)
        /\ Len(spline.arrays.cx) * ds >= TotalChord
        /\ (Len(spline.arrays.cx) - 1) * ds < TotalChord

\* a call whose ds does not divide the total chord length
C1_Witness ==
    /\ Generated /\ NonDegenerate /\ 0 < ds /\ ds < TotalChord
    /\ TotalChord % ds # 0
    /\ spline.returned
    /\ Len(spline.arrays.cx) >= 2

C3_MalformedRaises ==
    (Generated /\ (ds <= 0 \/ Len(x) < 2)) =>
        /\ ~spline.returned
        /\ spline.raised # NoError

----------------------------------------------------------------------------
(* Properties of the car code, checked under SpecCar *)

Called == calls > 0

PolygonFields ==
    {"outlines", "rear_right_wheel", "rear_left_wheel", "fr_wheel_origin",
     "fl_wheel_origin"}

ReturnedPolygons ==
    {"outlines", "front_right_wheel", "rear_right_wheel", "front_left_wheel",
     "rear_left_wheel"}

\* the world pose of the last state handed to plot_car
PoseYaw == frenet_to_cartesian(x_road)[4]

\* C4: after any sequence of plot_car calls the shape fields hold what they
\* held right after construction; a call changes x, y and yaw_vector only.
C4_ShapeFieldsKept ==
    \A car \in FreshCars : \A f \in ShapeFields :
        heap[self[f]] = car.heap[car.self[f]]

C4_Witness ==
    /\ calls = MaxCalls
    /\ x_road.d # Angle0 /\ x_road.mu # Angle0
    /\ \A car \in FreshCars : heap[self.yaw_vector] # car.heap[car.self.yaw_vector]

\* C5: each of the five returned polygons has 5 vertices, the first one
\* identical to the last.
C5_PolygonsClosed ==
    Called =>
        \A f \in ReturnedPolygons :
            /\ Len(ret[f]) = 2
            /\ Len(ret[f][1]) = 5 /\ Len(ret[f][2]) = 5
            /\ ret[f][1][1] = ret[f][1][5]
            /\ ret[f][2][1] = ret[f][2][5]

C5_Witness ==
    /\ Called
    /\ x_road.d = Atan512 /\ x_road.mu = Atan34 /\ x_road.s.over_r = HalfPi
    /\ ret.front_right_wheel[1][1] # ret.front_right_wheel[1][2]

\* the vertex v of the vehicle frame under the body pose: rotated by yaw,
\* then translated by (px, py)
BodyPose(v, yaw, px, py) ==
    <<RAdd(RSub(RMul(v[1], cos(yaw)), RMul(v[2], sin(yaw))), px),
      RAdd(RAdd(RMul(v[1], sin(yaw)), RMul(v[2], cos(yaw))), py)>>

\* the polygon (an array of 5 vertices) moved by wheelbase along x, under the
\* body pose, vertices as columns
FrontUnderBodyPose(rear) ==
    LET world == [i \in 1..Len(rear) |->
                     BodyPose(<<RAdd(rear[i][1], wheelbase), rear[i][2]>>,
                              PoseYaw, ret.x, ret.y)]
    IN  <<[i \in 1..Len(rear) |-> world[i][1]], [i \in 1..Len(rear) |-> world[i][2]]>>

\* C6: with steering angle d = 0 the returned front wheels are the rear
\* wheels moved by wheelbase along x and put under the body pose alone.
C6_ZeroSteerNoOffset ==
    (Called /\ x_road.d = Angle0) =>
        /\ ret.front_right_wheel = FrontUnderBodyPose(heap[self.rear_right_wheel])
        /\ ret.front_left_wheel = FrontUnderBodyPose(heap[self.rear_left_wheel])

C6_Witness ==
    /\ Called /\ x_road.d = Angle0
    /\ x_road.mu = Atan34 /\ x_road.s.over_r = Atan34 /\ x_road.e = Rat(1, 1)

AtOrigin ==
    /\ x_road.s.over_r = Angle0 /\ x_road.e = Rat(0, 1) /\ x_road.mu = Angle0
    /\ x_road.v = Rat(0, 1) /\ x_road.d = Angle0

\* C7 as stated: for (s=0, e=0, mu=0, v=0, d=0) the returned world position
\* is (r + l_r, 0).
C7_PositionOnXAxis ==
    (Called /\ AtOrigin) =>
        /\ ret.x = RAdd(r, l_r) /\ ret.y = Rat(0, 1)
        /\ frenet_to_cartesian(x_road)[1] = RAdd(r, l_r)
        /\ frenet_to_cartesian(x_road)[2] = Rat(0, 1)

\* C7 amended: for (s=0, e=0, mu=0, v=0, d=0) the returned world position
\* is (r, l_r): the l_r offset is along the heading pi/2, not along x.
C7_PositionAboveXAxis ==
    (Called /\ AtOrigin) =>
        /\ ret.x = r /\ ret.y = l_r
        /\ frenet_to_cartesian(x_road)[1] = r
        /\ frenet_to_cartesian(x_road)[2] = l_r
        /\ r = Rat(50, 1) /\ l_r = Rat(148, 100)

C7_Witness == Called /\ AtOrigin /\ ret.y = Rat(37, 25)

Identity2 == << <<Rat(1, 1), Rat(0, 1)>>, <<Rat(0, 1), Rat(1, 1)>> >>

\* the angles the last call rotated by, and the polygons it rotated
AnglesUsed == {PoseYaw, x_road.d, x_road.mu, SOverR(x_road.s)}

PolygonsUsed == {heap[self[f]] : f \in PolygonFields}

\* C8: get_rotation_matrix(theta) is [[cos, sin], [-sin, cos]]; multiplying a
\* polygon on the right by it and then by get_rotation_matrix(-theta) gives
\* the polygon back, the product of the two matrices being the identity.
C8_RotationRoundTrip ==
    Called =>
        /\ heap[self.yaw_vector] = get_rotation_matrix(PoseYaw)
        /\ \A theta \in AnglesUsed :
              /\ get_rotation_matrix(theta) =
                     << <<cos(theta), sin(theta)>>,
                        <<RNeg(sin(theta)), cos(theta)>> >>
              /\ dot(get_rotation_matrix(theta),
                     get_rotation_matrix(AngNeg(theta))) = Identity2
              /\ \A P \in PolygonsUsed :
                    dot(dot(P, get_rotation_matrix(theta)),
                        get_rotation_matrix(AngNeg(theta))) = P

C8_Witness ==
    /\ Called
    /\ x_road.mu = AngNeg(Atan34) /\ x_road.s.over_r = Atan34
    /\ x_road.d = AngNeg(Atan512)
    /\ \E P \in PolygonsUsed : dot(P, get_rotation_matrix(x_road.d)) # P

\* C10: whatever calls came before, plot_car(q) returns what it returns on a
\* fresh instance, and leaves x, y, yaw_vector holding the pose of q alone.
C10_NoLeakAcrossCalls ==
    Called =>
        /\ \A car \in FreshCars : ret = plot_car(car.heap, car.self, x_road).ret
        /\ self.x = frenet_to_cartesian(x_road)[1]
        /\ self.y = frenet_to_cartesian(x_road)[2]
        /\ heap[self.yaw_vector] = get_rotation_matrix(PoseYaw)

\* a second call, with a pose other than the one the first call cached
C10_Witness ==
    /\ calls = MaxCalls
    /\ x_road.mu = Atan34 /\ x_road.e = Rat(1, 1)
    /\ ret.x = self.x /\ ret.y = self.y /\ ret.x # r

=============================================================================
